---- MODULE Spec2Model ----
(***************************************************************************)
(* A model of src/cube.js: the Cube class, its synchronous methods, and    *)
(* testPromise(), whose timer and promise reactions are modelled on a      *)
(* simulated clock with a FIFO microtask queue.                            *)
(***************************************************************************)
EXTENDS Integers, Sequences, FiniteSets, TLC

\* ---------------------------------------------------------------- bounds
NegLen   == 1       \* lengths range over -NegLen..MaxLen
MaxLen   == 2
MaxCalls == 2       \* testPromise() calls issued in one behaviour
MaxClock == 1500    \* the simulated clock stops here
TickStep == 500     \* the small step of the simulated clock
MaxSpy   == 1       \* add invocations the spy records
MaxObs   == 2       \* accessor results the caller records

\* ------------------------------------------------------ program constants
TimeoutDelay   == 1000   \* setTimeout(..., 1000)
ResolveValue   == 3      \* resolve(3)
ThenFactor     == 2      \* result * 2
AreaFaces      == 6      \* (length * length) * 6
VolumeExponent == 3      \* Math.pow(length, 3)

Cubes     == {"c1", "c2"}
Lengths   == (0 - NegLen)..MaxLen
Args      == {-1, 2}
Accessors == {"getSideLength", "getSurfaceArea", "getVolume"}

VARIABLES
    length,     \* this.length of each Cube
    ctorArg,    \* the value each Cube's constructor was given (never written again)
    now,        \* the simulated clock
    calls,      \* one record per testPromise() call
    jobs,       \* the microtask queue (promise reaction jobs), FIFO
    ret,        \* the last call of add or callAanotherMethod and what it returned
    spy,        \* the invocations dispatched to add: receiver and arguments, in order
    obs,        \* the accessor calls made so far: receiver, accessor, result, in order
    made        \* per object, the calls made of add and of callAanotherMethod

vars == <<length, ctorArg, now, calls, jobs, ret, spy, obs, made>>

\* ------------------------------------------------------------ pure parts
RECURSIVE Pow(_, _)
Pow(x, n) == IF n = 0 THEN 1 ELSE x * Pow(x, n - 1)

\* a difference where the code has a sum
add_subtracts(num1, num2) == num1 - num2

add(num1, num2) == num1 + num2

getSideLength(c) == length[c]

\* the area of one row of faces: the square is forgotten
getSurfaceArea_unsquared(c) == length[c] * AreaFaces

getSurfaceArea(c) == (length[c] * length[c]) * AreaFaces

\* the exponent of an area where the code has the exponent of a volume
getVolume_squared(c) == Pow(length[c], VolumeExponent - 1)

\* a volume computed from the magnitude of the length
getVolume_magnitude(c) ==
    Pow(IF length[c] < 0 THEN 0 - length[c] ELSE length[c], VolumeExponent)

getVolume(c) == Pow(length[c], VolumeExponent)

\* ------------------------------------------------------------- promises
Pending == [state |-> "pending", val |-> 0]

Resolve(p, v) == IF p.state = "pending" THEN [state |-> "fulfilled", val |-> v] ELSE p

Reject(p, v) == IF p.state = "pending" THEN [state |-> "rejected", val |-> v] ELSE p

\* a reaction that hands the value on without doubling it
ThenCallback_undoubled(result) == result

\* the reaction registered by .then(result => result * 2)
ThenCallback(result) == result * ThenFactor

\* a timer callback that calls reject where the code calls resolve
TimerCallback_rejects(p) == Reject(p, ResolveValue)

\* the executor's timer callback: resolve(3)
TimerCallback(p) == Resolve(p, ResolveValue)

\* settling the derived promise from the promise it was chained on
Chain(inner, outer) ==
    IF inner.state = "fulfilled" THEN Resolve(outer, ThenCallback(inner.val))
    ELSE IF inner.state = "rejected" THEN Reject(outer, inner.val)
    ELSE outer

NoRet == [op |-> "none", cube |-> "c1", a |-> 0, b |-> 0, val |-> 0]

Returned(o, c, x, y, v) == [op |-> o, cube |-> c, a |-> x, b |-> y, val |-> v]

Invocation(c, x, y) == [cube |-> c, a |-> x, b |-> y]

Observed(c, acc, v) == [cube |-> c, acc |-> acc, val |-> v]

NoneMade == [c \in Cubes |-> [add |-> 0, cam |-> 0]]

\* the length kept in one place shared by every Cube: the last constructor wins
Init_sharedLength ==
    /\ ctorArg \in [Cubes -> Lengths]
    /\ length = [c \in Cubes |-> ctorArg["c2"]]
    /\ now = 0
    /\ calls = <<>>
    /\ jobs = <<>>
    /\ ret = NoRet
    /\ spy = <<>>
    /\ obs = <<>>
    /\ made = NoneMade

\* ----------------------------------------------------------------- Init
\* the constructor of each Cube: this.length = length
Init ==
    /\ length \in [Cubes -> Lengths]
    /\ ctorArg = length
    /\ now = 0
    /\ calls = <<>>
    /\ jobs = <<>>
    /\ ret = NoRet
    /\ spy = <<>>
    /\ obs = <<>>
    /\ made = NoneMade

\* -------------------------------------------------- synchronous methods
\* a call through the object's add slot: an observer installed on add records it
DispatchAdd(c, num1, num2) ==
    /\ Len(spy) < MaxSpy
    /\ spy' = Append(spy, Invocation(c, num1, num2))

\* obj.add(num1, num2)
Add(c, num1, num2) ==
    /\ DispatchAdd(c, num1, num2)
    /\ ret' = Returned("add", c, num1, num2, add(num1, num2))
    /\ made' = [made EXCEPT ![c].add = @ + 1]
    /\ UNCHANGED <<length, ctorArg, now, calls, jobs, obs>>

\* the sum computed in place, with no call through the object's add
CallAanotherMethod_inlined(c, num1, num2) ==
    /\ spy' = spy
    /\ ret' = Returned("callAanotherMethod", c, num1, num2, num1 + num2)
    /\ made' = [made EXCEPT ![c].cam = @ + 1]
    /\ UNCHANGED <<length, ctorArg, now, calls, jobs, obs>>

\* obj.callAanotherMethod(num1, num2): return this.add(num1, num2)
CallAanotherMethod(c, num1, num2) ==
    /\ DispatchAdd(c, num1, num2)
    /\ ret' = Returned("callAanotherMethod", c, num1, num2, add(num1, num2))
    /\ made' = [made EXCEPT ![c].cam = @ + 1]
    /\ UNCHANGED <<length, ctorArg, now, calls, jobs, obs>>

\* return this.length++ where the code has return this.length
GetSideLength_increments(c) ==
    /\ Len(obs) < MaxObs
    /\ obs' = Append(obs, Observed(c, "getSideLength", getSideLength(c)))
    /\ length' = [length EXCEPT ![c] = @ + 1]
    /\ UNCHANGED <<ctorArg, now, calls, jobs, ret, spy, made>>

GetSideLength(c) ==
    /\ Len(obs) < MaxObs
    /\ obs' = Append(obs, Observed(c, "getSideLength", getSideLength(c)))
    /\ UNCHANGED <<length, ctorArg, now, calls, jobs, ret, spy, made>>

GetSurfaceArea(c) ==
    /\ Len(obs) < MaxObs
    /\ obs' = Append(obs, Observed(c, "getSurfaceArea", getSurfaceArea(c)))
    /\ UNCHANGED <<length, ctorArg, now, calls, jobs, ret, spy, made>>

\* the volume computed in place: this.length = Math.pow(this.length, 3)
GetVolume_inPlace(c) ==
    /\ Len(obs) < MaxObs
    /\ obs' = Append(obs, Observed(c, "getVolume", getVolume(c)))
    /\ length' = [length EXCEPT ![c] = getVolume(c)]
    /\ UNCHANGED <<ctorArg, now, calls, jobs, ret, spy, made>>

GetVolume(c) ==
    /\ Len(obs) < MaxObs
    /\ obs' = Append(obs, Observed(c, "getVolume", getVolume(c)))
    /\ UNCHANGED <<length, ctorArg, now, calls, jobs, ret, spy, made>>

\* ---------------------------------------------------------- testPromise
\* obj.testPromise(): new Promise(executor).then(...); the executor arms the timer
TestPromise(c) ==
    /\ Len(calls) < MaxCalls
    /\ now + TimeoutDelay <= MaxClock
    /\ calls' = Append(calls, [cube |-> c, at |-> now, due |-> now + TimeoutDelay,
                               timer |-> TRUE, inner |-> Pending, outer |-> Pending,
                               got |-> <<>>])
    /\ UNCHANGED <<length, ctorArg, now, jobs, ret, spy, obs, made>>

\* timers fire in order of their due time, ties in order of creation
FirstDue(i) ==
    \A k \in DOMAIN calls :
        calls[k].timer =>
            \/ calls[i].due < calls[k].due
            \/ calls[i].due = calls[k].due /\ i <= k

\* one timer callback shared by all the calls: firing it resolves every pending call
FireTimer_shared(i) ==
    /\ i \in DOMAIN calls
    /\ calls[i].timer
    /\ now >= calls[i].due
    /\ FirstDue(i)
    /\ calls' = [k \in DOMAIN calls |->
                    IF calls[k].timer
                    THEN [calls[k] EXCEPT !.timer = FALSE, !.inner = TimerCallback(@)]
                    ELSE calls[k]]
    /\ jobs' = jobs \o [n \in 1..Cardinality({k \in DOMAIN calls : calls[k].timer}) |->
                    [kind |-> "then",
                     call |-> CHOOSE k \in DOMAIN calls :
                                /\ calls[k].timer
                                /\ Cardinality({m \in 1..k : calls[m].timer}) = n]]
    /\ UNCHANGED <<length, ctorArg, now, ret, spy, obs, made>>

\* the setTimeout callback of call i runs: resolve(3) and queue the then-reaction
FireTimer(i) ==
    /\ i \in DOMAIN calls
    /\ calls[i].timer
    /\ now >= calls[i].due
    /\ FirstDue(i)
    /\ calls' = [calls EXCEPT ![i].timer = FALSE, ![i].inner = TimerCallback(@)]
    /\ jobs' = Append(jobs, [kind |-> "then", call |-> i])
    /\ UNCHANGED <<length, ctorArg, now, ret, spy, obs, made>>

\* a then-reaction that doubles its value through the object's add:
\* result => this.add(result, result)
RunJob_viaAdd ==
    /\ jobs # <<>>
    /\ LET j == Head(jobs)
           i == j.call
       IN  IF j.kind = "then"
           THEN /\ calls' = [calls EXCEPT ![i].outer = Chain(calls[i].inner, @)]
                /\ jobs' = Append(Tail(jobs), [kind |-> "caller", call |-> i])
                /\ spy' = Append(spy, Invocation(calls[i].cube, calls[i].inner.val,
                                                 calls[i].inner.val))
           ELSE /\ calls' = [calls EXCEPT ![i].got = Append(@, calls[i].outer)]
                /\ jobs' = Tail(jobs)
                /\ spy' = spy
    /\ UNCHANGED <<length, ctorArg, now, ret, obs, made>>

\* a caller's reaction that stays registered after it ran: it is queued again
RunJob_requeues ==
    /\ jobs # <<>>
    /\ LET j == Head(jobs)
           i == j.call
       IN  IF j.kind = "then"
           THEN /\ calls' = [calls EXCEPT ![i].outer = Chain(calls[i].inner, @)]
                /\ jobs' = Append(Tail(jobs), [kind |-> "caller", call |-> i])
           ELSE /\ calls' = [calls EXCEPT ![i].got = Append(@, calls[i].outer)]
                /\ jobs' = Append(Tail(jobs), j)
    /\ UNCHANGED <<length, ctorArg, now, ret, spy, obs, made>>

\* the head of the microtask queue runs
RunJob ==
    /\ jobs # <<>>
    /\ LET j == Head(jobs)
           i == j.call
       IN  IF j.kind = "then"
           THEN /\ calls' = [calls EXCEPT ![i].outer = Chain(calls[i].inner, @)]
                /\ jobs' = Append(Tail(jobs), [kind |-> "caller", call |-> i])
           ELSE /\ calls' = [calls EXCEPT ![i].got = Append(@, calls[i].outer)]
                /\ jobs' = Tail(jobs)
    /\ UNCHANGED <<length, ctorArg, now, ret, spy, obs, made>>

\* the simulated clock advances
Tick(d) ==
    /\ d > 0
    /\ now + d <= MaxClock
    /\ now' = now + d
    /\ UNCHANGED <<length, ctorArg, calls, jobs, ret, spy, obs, made>>

\* the amounts the clock is advanced by: a part of the delay, the whole delay, or
\* all the time that is left
TickSteps == {TickStep, TimeoutDelay, MaxClock - now}

ClockAdvances == \E d \in TickSteps : Tick(d)

Next ==
    \/ \E c \in Cubes, a \in Args, b \in Args : Add(c, a, b)
    \/ \E c \in Cubes, a \in Args, b \in Args : CallAanotherMethod(c, a, b)
    \/ \E c \in Cubes : GetSideLength(c)
    \/ \E c \in Cubes : GetSurfaceArea(c)
    \/ \E c \in Cubes : GetVolume(c)
    \/ \E c \in Cubes : TestPromise(c)
    \/ \E i \in 1..MaxCalls : FireTimer(i)
    \/ RunJob
    \/ ClockAdvances

Spec == Init /\ [][Next]_vars

\* the synchronous methods alone
NextSync ==
    \/ \E c \in Cubes, a \in Args, b \in Args : Add(c, a, b)
    \/ \E c \in Cubes, a \in Args, b \in Args : CallAanotherMethod(c, a, b)
    \/ \E c \in Cubes : GetSideLength(c)
    \/ \E c \in Cubes : GetSurfaceArea(c)
    \/ \E c \in Cubes : GetVolume(c)

SpecSync == Init /\ [][NextSync]_vars

\* testPromise, its timer, its reactions and the clock alone
NextAsync ==
    \/ \E c \in Cubes : TestPromise(c)
    \/ \E i \in 1..MaxCalls : FireTimer(i)
    \/ RunJob
    \/ ClockAdvances

SpecAsync == Init /\ [][NextAsync]_vars

\* the event loop runs a due timer and a queued reaction, and time passes
SpecAsyncFair ==
    /\ SpecAsync
    /\ WF_vars(\E i \in 1..MaxCalls : FireTimer(i))
    /\ WF_vars(RunJob)
    /\ WF_vars(ClockAdvances)

\* ---------------------------------------------------------------- claims
Fulfilled(v) == [state |-> "fulfilled", val |-> v]

\* the reaction jobs of call i still in the microtask queue
Queued(i) == {n \in DOMAIN jobs : jobs[n].call = i}

\* C1: whatever is delivered to the caller of a testPromise() call issued at time t
\* is the fulfilment value 6, and nothing is delivered while the clock is below
\* t + 1000.
C1_DeliversSixAfterDelay ==
    \A i \in DOMAIN calls :
        \A k \in DOMAIN calls[i].got :
            /\ calls[i].got[k] = Fulfilled(6)
            /\ now >= calls[i].at + 1000

\* a call issued after the clock had moved has been delivered
C1_Witness ==
    \E i \in DOMAIN calls : calls[i].at > 0 /\ calls[i].got # <<>>

\* C2: under fair timers, reactions and clock, every testPromise() call issued is
\* eventually fulfilled, and no promise of any call is ever rejected.
C2_AlwaysResolves ==
    /\ \A i \in 1..MaxCalls :
           (Len(calls) >= i) ~> (Len(calls) >= i /\ calls[i].outer.state = "fulfilled")
    /\ [](\A i \in DOMAIN calls :
             /\ calls[i].inner.state # "rejected"
             /\ calls[i].outer.state # "rejected")

\* every call of a full schedule has been fulfilled
C2_Witness ==
    /\ Len(calls) = MaxCalls
    /\ \A i \in DOMAIN calls : calls[i].outer.state = "fulfilled"

\* C8: concurrent testPromise() calls do not interfere: a call whose own timer has
\* not fired is wholly pending whatever the other calls did, a call is fulfilled
\* only with 6 and only once the clock reached its own t + 1000, it is delivered
\* at most once, and exactly once when its timer has fired and its reactions ran.
C8_CallsIndependent ==
    \A i \in DOMAIN calls :
        /\ calls[i].timer =>
               /\ calls[i].inner = Pending
               /\ calls[i].outer = Pending
               /\ calls[i].got = <<>>
               /\ Queued(i) = {}
        /\ calls[i].outer.state # "pending" =>
               /\ calls[i].outer = Fulfilled(6)
               /\ now >= calls[i].at + 1000
        /\ Len(calls[i].got) <= 1
        /\ (~calls[i].timer /\ Queued(i) = {}) => calls[i].got = <<Fulfilled(6)>>

\* two calls issued at different times were pending together; the first has been
\* delivered while the second still waits for its own timer
C8_Witness ==
    /\ Len(calls) = 2
    /\ calls[1].at < calls[2].at
    /\ calls[2].at < calls[1].due
    /\ calls[1].got # <<>>
    /\ calls[2].timer
    /\ now >= calls[1].due

\* the value an accessor returns for a cube of side l, written out
SideOf(l) == l

AreaOf(l) == 6 * l * l

VolumeOf(l) == l * l * l

\* a step that is a call of callAanotherMethod
CamStep == ret'.op = "callAanotherMethod" /\ (ret' # ret \/ spy' # spy)

\* C3: a call of callAanotherMethod(a, b) returns what add(a, b) returns and adds
\* exactly one invocation to those observed on add: on the same object, with the
\* arguments (a, b) in that order.
C3_DelegatesToAdd ==
    [][CamStep =>
        /\ ret'.val = add(ret'.a, ret'.b)
        /\ spy' = Append(spy, Invocation(ret'.cube, ret'.a, ret'.b))]_vars

\* callAanotherMethod has returned, with two different arguments, and add saw them
C3_Witness ==
    /\ ret.op = "callAanotherMethod"
    /\ ret.a # ret.b
    /\ spy = <<Invocation(ret.cube, ret.a, ret.b)>>

\* C4: getSurfaceArea() of a Cube constructed with a length L >= 0 returns 6 * L * L.
C4_SurfaceArea ==
    \A k \in DOMAIN obs :
        (obs[k].acc = "getSurfaceArea" /\ ctorArg[obs[k].cube] >= 0) =>
            obs[k].val = AreaOf(ctorArg[obs[k].cube])

\* the surface area of the cube of side 2 has been returned: 24
C4_Witness ==
    \E k \in DOMAIN obs :
        /\ obs[k].acc = "getSurfaceArea"
        /\ ctorArg[obs[k].cube] = 2
        /\ obs[k].val = 24

\* C5: getVolume() of a Cube constructed with a length L >= 0 returns L * L * L.
C5_Volume ==
    \A k \in DOMAIN obs :
        (obs[k].acc = "getVolume" /\ ctorArg[obs[k].cube] >= 0) =>
            obs[k].val = VolumeOf(ctorArg[obs[k].cube])

\* the volume of the cube of side 2 has been returned: 8
C5_Volume_Witness ==
    \E k \in DOMAIN obs :
        /\ obs[k].acc = "getVolume"
        /\ ctorArg[obs[k].cube] = 2
        /\ obs[k].val = 8

\* C7 as stated: for a negative length both getSurfaceArea() and getVolume()
\* return a negative value.
C7_AsStated ==
    \A k \in DOMAIN obs :
        (obs[k].acc \in {"getSurfaceArea", "getVolume"} /\ ctorArg[obs[k].cube] < 0) =>
            obs[k].val < 0

\* C7: a negative length L is stored as given and goes through the arithmetic:
\* getVolume() returns L * L * L, which is negative, and getSurfaceArea() returns
\* 6 * L * L, which is positive (the square loses the sign).
C7_NegativeLength ==
    \A k \in DOMAIN obs :
        LET l == ctorArg[obs[k].cube]
        IN  l < 0 =>
              /\ length[obs[k].cube] = l
              /\ obs[k].acc = "getSideLength" => obs[k].val = l
              /\ obs[k].acc = "getVolume" => (obs[k].val = VolumeOf(l) /\ obs[k].val < 0)
              /\ obs[k].acc = "getSurfaceArea" => (obs[k].val = AreaOf(l) /\ obs[k].val > 0)

\* both derived quantities of a cube of negative length have been returned
C7_Witness ==
    \E j, k \in DOMAIN obs :
        /\ obs[j].cube = obs[k].cube
        /\ ctorArg[obs[j].cube] < 0
        /\ obs[j].acc = "getSurfaceArea"
        /\ obs[k].acc = "getVolume"

\* C6: no operation writes length: in every state each Cube holds the value its
\* constructor was given, and getSideLength() has returned nothing else.
C6_LengthNeverMutated ==
    /\ length = ctorArg
    /\ \A k \in DOMAIN obs :
           obs[k].acc = "getSideLength" => obs[k].val = SideOf(ctorArg[obs[k].cube])

\* getSideLength() has returned on a Cube after add was invoked, the other
\* accessors and testPromise() ran on that Cube and the promise was delivered
C6_Witness ==
    /\ Len(obs) = MaxObs
    /\ obs[Len(obs)].acc = "getSideLength"
    /\ obs[1].acc # "getSideLength"
    /\ obs[1].cube = obs[Len(obs)].cube
    /\ ctorArg[obs[1].cube] = 2
    /\ spy # <<>>
    /\ \E i \in DOMAIN calls : calls[i].cube = obs[1].cube /\ calls[i].got # <<>>

\* C9: any two calls of the same accessor on the same Cube returned the same value.
C9_AccessorsRepeatable ==
    \A j, k \in DOMAIN obs :
        (obs[j].cube = obs[k].cube /\ obs[j].acc = obs[k].acc) => obs[j].val = obs[k].val

\* one accessor has returned twice on one Cube, the clock has moved, a timer callback
\* has run and add has been invoked
C9_Witness ==
    /\ \E j, k \in DOMAIN obs :
           j < k /\ obs[j].cube = obs[k].cube /\ obs[j].acc = obs[k].acc
    /\ now > 0
    /\ \E i \in DOMAIN calls : ~calls[i].timer
    /\ spy # <<>>

\* C10: of two Cubes constructed with different lengths, every accessor of each
\* returns the value its own length determines.
C10_InstancesIndependent ==
    ctorArg["c1"] # ctorArg["c2"] =>
        \A k \in DOMAIN obs :
            LET l == ctorArg[obs[k].cube]
            IN  /\ obs[k].acc = "getSideLength" => obs[k].val = SideOf(l)
                /\ obs[k].acc = "getSurfaceArea" => obs[k].val = AreaOf(l)
                /\ obs[k].acc = "getVolume" => obs[k].val = VolumeOf(l)

\* the same accessor has returned on both Cubes, with different results, and
\* testPromise() was issued on one of them in the meantime
C10_Witness ==
    /\ ctorArg["c1"] # ctorArg["c2"]
    /\ \E j, k \in DOMAIN obs :
           /\ obs[j].cube = "c1"
           /\ obs[k].cube = "c2"
           /\ obs[j].acc = obs[k].acc
           /\ obs[j].val # obs[k].val
    /\ calls # <<>>

\* C11: add(a, b) returns a + b, negative arguments included, whatever the lengths
\* of the Cubes are.
C11_AddIsSum ==
    ret.op = "add" => ret.val = ret.a + ret.b

\* add has returned the sum of a negative and a positive argument on a Cube whose
\* length is neither of them nor the sum
C11_Witness ==
    /\ ret.op = "add"
    /\ ret.a < 0
    /\ ret.b > 0
    /\ ret.val = 1
    /\ length[ret.cube] = 0

\* C12: what the caller sees of a testPromise() call is pending or resolved and
\* nothing else: a call starts pending with nothing delivered, a resolved call keeps
\* its state and its value in every later step, and what was delivered once is
\* neither delivered again nor changed.
C12_SingleShot ==
    [][/\ DOMAIN calls \subseteq DOMAIN calls'
       /\ \A i \in DOMAIN calls' :
             /\ calls'[i].outer.state \in {"pending", "fulfilled"}
             /\ i \notin DOMAIN calls =>
                   (calls'[i].outer = Pending /\ calls'[i].got = <<>>)
             /\ i \in DOMAIN calls =>
                   /\ calls[i].outer.state = "fulfilled" =>
                         calls'[i].outer = calls[i].outer
                   /\ calls[i].got # <<>> => calls'[i].got = calls[i].got]_vars

\* the first of two calls was resolved and delivered, and stayed so while the later
\* call was resolved and delivered and the clock ran to its end
C12_Witness ==
    /\ Len(calls) = 2
    /\ calls[1].at < calls[2].at
    /\ calls[1].got = <<Fulfilled(6)>>
    /\ calls[2].got = <<Fulfilled(6)>>
    /\ jobs = <<>>
    /\ now = MaxClock

\* the invocations of add observed on Cube c
AddCount(c) == Cardinality({k \in DOMAIN spy : spy[k].cube = c})

\* C13: on every Cube the number of invocations observed on add equals the number
\* of add calls plus the number of callAanotherMethod calls made on it: the
\* accessors and testPromise (issued, timer fired, reactions run) add none.
C13_AddCountFrame ==
    \A c \in Cubes : AddCount(c) = made[c].add + made[c].cam

\* one invocation of add is counted on a Cube after a call on it, with both of its
\* other accessors called and a testPromise() on it issued, fired and delivered
C13_Witness ==
    \E c \in Cubes :
        /\ AddCount(c) = 1
        /\ made[c].add + made[c].cam = 1
        /\ Len(obs) = MaxObs
        /\ \A k \in DOMAIN obs : obs[k].cube = c
        /\ \E i \in DOMAIN calls : calls[i].cube = c /\ calls[i].got # <<>>

====
